---- MODULE Spec2Model ----
(***************************************************************************)
(* SignalSmith backtester front end: the sidebar form (SidebarForm), its   *)
(* request compiler (submit), the application shell (App.handleSubmit),    *)
(* the CSV/JSON export handlers and the report document.                   *)
(*                                                                         *)
(* JavaScript values are tagged records so that values of different types  *)
(* can be compared: undefined, null, numbers (as rationals num/den),       *)
(* strings, booleans and arrays.  An object key whose value is undefined   *)
(* is dropped when the request is serialised, so "present in the request"  *)
(* means "different from Undefined".                                       *)
(***************************************************************************)
EXTENDS Integers, Sequences, FiniteSets, TLC

VARIABLES form, watch, loading, response, lastRunConfig, lastFormValues,
          inflight, issued, notice, chartRefs, download, lastOp,
          fieldErrors, storage

vars == <<form, watch, loading, response, lastRunConfig, lastFormValues,
          inflight, issued, notice, chartRefs, download, lastOp,
          fieldErrors, storage>>

\* fieldErrors: the fields the last Run Backtest attempt reported as failing
\* their rules; storage: the entry of the browser's local storage under
\* DEFAULT_PRESET_KEY
presetVars == <<fieldErrors, storage>>

formVars == <<form, watch>>

appVars == <<loading, response, lastRunConfig, lastFormValues,
             inflight, issued, notice, chartRefs>>

----------------------------------------------------------------------------
(* Bounds of the model *)

MaxSubmits == 3

MaxTickers == 2

MaxTickerLen == 3

MaxCellLen == 3

MaxRows == 2

----------------------------------------------------------------------------
(* JavaScript values *)

Undefined == [undefined |-> TRUE]

Null == [null |-> TRUE]

Num(v) == [num |-> v, den |-> 1]

Str(s) == [str |-> s]

Bool(b) == [bool |-> b]

Arr(s) == [arr |-> s]

Dayjs(ymd) == [dayjs |-> ymd]

\* A string given by its pieces: a piece is one of the characters , " & < >
\* or a line feed, or a run of other characters
Text(pieces) == [text |-> pieces]

IsText(x) == DOMAIN x = {"text"}

IsNum(x) == DOMAIN x = {"num", "den"}

IsArr(x) == DOMAIN x = {"arr"}

IsDayjs(x) == DOMAIN x = {"dayjs"}

\* The string that Dayjs.prototype.toISOString gives for a date
IsoString(ymd) == [isostr |-> ymd]

\* a / k for a number a
Div(a, k) == [num |-> a.num, den |-> a.den * k]

\* a === b for two numbers
NumEq(a, b) == a.num * b.den = b.num * a.den

\* a > b for two numbers (denominators are positive)
NumGt(a, b) == a.num * b.den > b.num * a.den

\* !x
Falsy(x) ==
    \/ x = Undefined
    \/ x = Null
    \/ x = Bool(FALSE)
    \/ x = Str("")
    \/ x = Text(<<>>)
    \/ (IsNum(x) /\ x.num = 0)

Truthy(x) == ~Falsy(x)

\* x ?? d
Coalesce(x, d) == IF x = Undefined \/ x = Null THEN d ELSE x

----------------------------------------------------------------------------
(* Strings of the ticker list: sequences of one-character strings *)

LowerCase == <<"a", "b", "c", "d", "e", "f", "g", "h", "i", "j", "k", "l", "m",
               "n", "o", "p", "q", "r", "s", "t", "u", "v", "w", "x", "y", "z">>

UpperCase == <<"A", "B", "C", "D", "E", "F", "G", "H", "I", "J", "K", "L", "M",
               "N", "O", "P", "Q", "R", "S", "T", "U", "V", "W", "X", "Y", "Z">>

WhiteSpace == {" "}

UpperChar(c) ==
    IF \E i \in 1..Len(LowerCase) : LowerCase[i] = c
    THEN UpperCase[CHOOSE i \in 1..Len(LowerCase) : LowerCase[i] = c]
    ELSE c

\* String.prototype.toUpperCase
ToUpperCase(s) == [i \in 1..Len(s) |-> UpperChar(s[i])]

RECURSIVE TrimStart(_)
TrimStart(s) ==
    IF s # <<>> /\ Head(s) \in WhiteSpace THEN TrimStart(Tail(s)) ELSE s

RECURSIVE TrimEnd(_)
TrimEnd(s) ==
    IF s # <<>> /\ s[Len(s)] \in WhiteSpace
    THEN TrimEnd(SubSeq(s, 1, Len(s) - 1))
    ELSE s

\* String.prototype.trim
Trim(s) == TrimEnd(TrimStart(s))

\* Array.prototype.map over the ticker list
RECURSIVE MapTickers(_)
MapTickers(list) ==
    IF list = <<>> THEN <<>>
    ELSE <<Trim(ToUpperCase(Head(list)))>> \o MapTickers(Tail(list))

\* Array.prototype.filter(Boolean) over a list of strings
RECURSIVE FilterBoolean(_)
FilterBoolean(list) ==
    IF list = <<>> THEN <<>>
    ELSE IF Head(list) = <<>> THEN FilterBoolean(Tail(list))
    ELSE <<Head(list)>> \o FilterBoolean(Tail(list))

----------------------------------------------------------------------------
(* The form store.  Nested fields are flattened: rsi_rule.mode is the key  *)
(* rsi_rule_mode, filters.sectors is filters_sectors.                      *)

Today == <<2025, 6, 30>>

DefaultStart == <<2024, 6, 30>>

strategyPresets ==
    [ mean_reversion |->
        [ enable_rsi |-> Bool(TRUE), use_macd |-> Bool(FALSE),
          use_obv |-> Bool(FALSE), use_ema |-> Bool(TRUE),
          use_adx |-> Bool(FALSE), use_aroon |-> Bool(FALSE),
          use_stoch |-> Bool(FALSE),
          rsi_rule_mode |-> Str("oversold"), rsi_rule_threshold |-> Num(30) ],
      momentum |->
        [ enable_rsi |-> Bool(FALSE), use_macd |-> Bool(TRUE),
          use_obv |-> Bool(TRUE), use_ema |-> Bool(TRUE),
          use_adx |-> Bool(TRUE), use_aroon |-> Bool(FALSE),
          use_stoch |-> Bool(TRUE),
          stoch_rule |-> Str("signal"), stoch_threshold |-> Num(20) ],
      multifactor |->
        [ enable_rsi |-> Bool(TRUE), use_macd |-> Bool(TRUE),
          use_obv |-> Bool(TRUE), use_ema |-> Bool(TRUE),
          use_adx |-> Bool(TRUE), use_aroon |-> Bool(TRUE),
          use_stoch |-> Bool(TRUE) ] ]

initialValues ==
    [ strategy |-> Str("mean_reversion"),
      enable_rsi |-> Bool(TRUE), use_macd |-> Bool(FALSE),
      use_obv |-> Bool(FALSE), use_ema |-> Bool(TRUE),
      use_adx |-> Bool(FALSE), use_aroon |-> Bool(FALSE),
      use_stoch |-> Bool(FALSE),
      date |-> Arr(<<Dayjs(DefaultStart), Dayjs(Today)>>),
      capital |-> Num(100000), fee_bps |-> Num(1), hold_days |-> Num(1),
      stop_loss_pct |-> Undefined, take_profit_pct |-> Undefined,
      rsi_rule_mode |-> Str("oversold"), rsi_rule_threshold |-> Num(30),
      rsi_n |-> Num(14),
      macd_fast |-> Num(12), macd_slow |-> Num(26), macd_signal |-> Num(9),
      macd_rule |-> Str("signal"), obv_rule |-> Str("rise"),
      ema_short |-> Num(12), ema_long |-> Num(26),
      adx_n |-> Num(14), adx_min |-> Num(20),
      aroon_n |-> Num(25), aroon_up |-> Num(70), aroon_down |-> Num(30),
      stoch_k |-> Num(14), stoch_d |-> Num(3),
      stoch_rule |-> Str("signal"), stoch_threshold |-> Num(20),
      policy |-> Str("any"), k |-> Num(2),
      max_horizon |-> Num(10), hist_horizon |-> Num(1), hist_bins |-> Num(20),
      filters_sectors |-> Undefined, filters_mcap_min |-> Undefined,
      filters_mcap_max |-> Undefined, filters_exclude_tickers |-> Undefined ]

FieldNames == DOMAIN initialValues

\* form.setFieldsValue(patch): the named fields are overwritten, the rest kept
setFieldsValue(f, patch) ==
    [name \in DOMAIN f |-> IF name \in DOMAIN patch THEN patch[name] ELSE f[name]]

\* A preset applied over the initial values instead of the current store
handleStrategyChangeReset(f, value) ==
    IF value \in DOMAIN strategyPresets
    THEN [setFieldsValue(initialValues, strategyPresets[value])
             EXCEPT !.strategy = f.strategy]
    ELSE f

\* handleStrategyChange: merge the preset of a known strategy id
handleStrategyChange(f, value) ==
    IF value \in DOMAIN strategyPresets
    THEN setFieldsValue(f, strategyPresets[value])
    ELSE f

\* The watched values of the first render, never refreshed afterwards
useWatchFirstRender(f) ==
    [ maxHorizon |-> f.max_horizon,
      enableRsi |-> Bool(TRUE),
      useMacd |-> Bool(FALSE),
      useObv |-> Bool(FALSE),
      useEma |-> Bool(FALSE),
      useAdx |-> Bool(FALSE),
      useAroon |-> Bool(FALSE),
      useStoch |-> Bool(FALSE) ]

\* The values Form.useWatch hands to a render of the component
useWatch(f) ==
    [ maxHorizon |-> f.max_horizon,
      enableRsi |-> Coalesce(f.enable_rsi, Bool(TRUE)),
      useMacd |-> Coalesce(f.use_macd, Bool(FALSE)),
      useObv |-> Coalesce(f.use_obv, Bool(FALSE)),
      useEma |-> Coalesce(f.use_ema, Bool(FALSE)),
      useAdx |-> Coalesce(f.use_adx, Bool(FALSE)),
      useAroon |-> Coalesce(f.use_aroon, Bool(FALSE)),
      useStoch |-> Coalesce(f.use_stoch, Bool(FALSE)) ]

\* An effect that clamps hold_days only
horizonEffectHoldOnly(f, maxHorizon) ==
    IF Falsy(maxHorizon) THEN f
    ELSE LET currentHold == f.hold_days
             clampHold == Truthy(currentHold) /\ NumGt(currentHold, maxHorizon)
         IN [f EXCEPT !.hold_days = IF clampHold THEN maxHorizon ELSE @]

\* The effect on maxHorizon: clamp hold_days and hist_horizon down to it
horizonEffect(f, maxHorizon) ==
    IF Falsy(maxHorizon) THEN f
    ELSE LET currentHold == f.hold_days
             currentHist == f.hist_horizon
             clampHold == Truthy(currentHold) /\ NumGt(currentHold, maxHorizon)
             clampHist == Truthy(currentHist) /\ NumGt(currentHist, maxHorizon)
         IN [f EXCEPT !.hold_days = IF clampHold THEN maxHorizon ELSE @,
                      !.hist_horizon = IF clampHist THEN maxHorizon ELSE @]

\* A change of the store followed by the render it causes: the effect runs
\* only when the watched max_horizon differs from the previous render's
afterChange(f, w) ==
    IF useWatch(f).maxHorizon # w.maxHorizon
    THEN horizonEffect(f, useWatch(f).maxHorizon)
    ELSE f

\* Mount: initialValues, the stored preset (if any) merged over them, then
\* the first run of the effect with the watched max_horizon
\* localStorage.getItem gives null when the key holds nothing
NoItem == Null

\* Dayjs.prototype.toJSON gives the ISO string; undefined in an array
\* becomes null
toJSON(element) ==
    IF IsDayjs(element) THEN IsoString(element.dayjs)
    ELSE IF element = Undefined THEN Null
    ELSE element

\* The value of a key in the text: date is the one field that holds objects
serialize(name, value) ==
    IF name = "date" /\ IsArr(value)
    THEN Arr([i \in 1..Len(value.arr) |-> toJSON(value.arr[i])])
    ELSE value

\* JSON.stringify(values): the text, given by the object it denotes; a key
\* whose value is undefined is left out
JSONstringify(values) ==
    [json |-> [name \in {n \in DOMAIN values : values[n] # Undefined} |->
                  serialize(name, values[name])]]

\* JSON.parse(text): strings stay strings, no Dayjs object is rebuilt
JSONparse(text) == text.json

\* The effect that loads the preset: an entry, when there is one, is parsed
storedPreset(item) == IF item = NoItem THEN <<>> ELSE JSONparse(item)

mount(preset) ==
    LET loaded == setFieldsValue(initialValues, preset)
    IN horizonEffect(loaded, useWatch(loaded).maxHorizon)

----------------------------------------------------------------------------
(* The request compiler: submit(values) of SidebarForm, with the watched   *)
(* enable flags of the render whose closure runs                           *)

\* dayjs.format("YYYY-MM-DD")
format(d) == [ymd |-> d.dayjs]

\* A truthiness test in place of the undefined/null test: 0 counts as unset
pctToFractionTruthy(input) ==
    IF Truthy(input) THEN Div(input, 100) ELSE Undefined

\* stopLossInput !== undefined && stopLossInput !== null ? input / 100 : undefined
pctToFraction(input) ==
    IF input # Undefined /\ input # Null THEN Div(input, 100) ELSE Undefined

\* The ticker list uppercased and filtered but not trimmed
normalizeExcludeNoTrim(tickers) ==
    FilterBoolean([i \in 1..Len(IF Falsy(tickers) THEN <<>> ELSE tickers.arr) |->
                      ToUpperCase(tickers.arr[i])])

\* (baseFilters.exclude_tickers || []).map(toUpperCase().trim()).filter(Boolean)
normalizeExclude(tickers) ==
    FilterBoolean(MapTickers(IF Falsy(tickers) THEN <<>> ELSE tickers.arr))

compileFilters(values) ==
    LET exclude == normalizeExclude(values.filters_exclude_tickers)
    IN [ sectors |-> values.filters_sectors,
         mcap_min |-> values.filters_mcap_min,
         mcap_max |-> values.filters_mcap_max,
         exclude_tickers |-> IF Len(exclude) # 0 THEN Arr(exclude) ELSE Undefined ]

hasFilters(filters) ==
    \/ (Truthy(filters.sectors) /\ Len(filters.sectors.arr) # 0)
    \/ filters.mcap_min # Undefined
    \/ filters.mcap_max # Undefined
    \/ (Truthy(filters.exclude_tickers) /\ Len(filters.exclude_tickers.arr) # 0)

\* An RSI block that routes the threshold to both sub-fields
rsiBlockBoth(values, w) ==
    IF Truthy(w.enableRsi)
    THEN [ use |-> Bool(TRUE),
           n |-> values.rsi_n,
           rule |-> values.rsi_rule_mode,
           oversold |-> values.rsi_rule_threshold,
           overbought |-> values.rsi_rule_threshold ]
    ELSE [ use |-> Bool(FALSE) ]

rsiBlock(values, w) ==
    IF Truthy(w.enableRsi)
    THEN [ use |-> Bool(TRUE),
           n |-> values.rsi_n,
           rule |-> values.rsi_rule_mode,
           oversold |-> IF values.rsi_rule_mode = Str("oversold")
                        THEN values.rsi_rule_threshold ELSE Undefined,
           overbought |-> IF values.rsi_rule_mode = Str("overbought")
                          THEN values.rsi_rule_threshold ELSE Undefined ]
    ELSE [ use |-> Bool(FALSE) ]

macdBlock(values, w) ==
    IF Truthy(w.useMacd)
    THEN [ use |-> Bool(TRUE), fast |-> values.macd_fast, slow |-> values.macd_slow,
           signal |-> values.macd_signal, rule |-> values.macd_rule ]
    ELSE [ use |-> Bool(FALSE) ]

obvBlock(values, w) ==
    IF Truthy(w.useObv)
    THEN [ use |-> Bool(TRUE), rule |-> values.obv_rule ]
    ELSE [ use |-> Bool(FALSE) ]

emaBlock(values, w) ==
    IF Truthy(w.useEma)
    THEN [ use |-> Bool(TRUE), short |-> values.ema_short, long |-> values.ema_long ]
    ELSE [ use |-> Bool(FALSE) ]

adxBlock(values, w) ==
    IF Truthy(w.useAdx)
    THEN [ use |-> Bool(TRUE), n |-> values.adx_n, min |-> values.adx_min ]
    ELSE [ use |-> Bool(FALSE) ]

aroonBlock(values, w) ==
    IF Truthy(w.useAroon)
    THEN [ use |-> Bool(TRUE), n |-> values.aroon_n, up |-> values.aroon_up,
           down |-> values.aroon_down ]
    ELSE [ use |-> Bool(FALSE) ]

stochBlock(values, w) ==
    IF Truthy(w.useStoch)
    THEN [ use |-> Bool(TRUE), k |-> values.stoch_k, d |-> values.stoch_d,
           rule |-> values.stoch_rule, threshold |-> values.stoch_threshold ]
    ELSE [ use |-> Bool(FALSE) ]

indicatorsPayload(values, w) ==
    [ policy |-> values.policy,
      atleast_k |-> values.k,
      max_horizon |-> values.max_horizon,
      hist_horizon |-> values.hist_horizon,
      hold_days |-> values.hold_days,
      stop_loss_pct |-> pctToFraction(values.stop_loss_pct),
      take_profit_pct |-> pctToFraction(values.take_profit_pct),
      rsi |-> rsiBlock(values, w),
      macd |-> macdBlock(values, w),
      obv |-> obvBlock(values, w),
      ema |-> emaBlock(values, w),
      adx |-> adxBlock(values, w),
      aroon |-> aroonBlock(values, w),
      stoch |-> stochBlock(values, w) ]

\* The payload submit hands to onSubmit
submit(values, w) ==
    LET filters == compileFilters(values)
    IN [ strategy |-> values.strategy,
         start |-> format(values.date.arr[1]),
         end |-> format(values.date.arr[2]),
         indicators |-> indicatorsPayload(values, w),
         rsi_rule |-> IF Truthy(w.enableRsi)
                      THEN [ mode |-> values.rsi_rule_mode,
                             threshold |-> values.rsi_rule_threshold ]
                      ELSE Undefined,
         filters |-> IF hasFilters(filters) THEN filters ELSE Undefined,
         capital |-> values.capital,
         fee_bps |-> values.fee_bps,
         hold_days |-> values.hold_days,
         stop_loss_pct |-> pctToFraction(values.stop_loss_pct),
         take_profit_pct |-> pctToFraction(values.take_profit_pct),
         hist_bins |-> values.hist_bins ]

\* A key is sent in the serialised request when its value is not undefined
Sent(obj, key) == key \in DOMAIN obj /\ obj[key] # Undefined

\* The required rule: undefined, null, the empty string and the empty array
\* are empty values
isEmptyValue(value) ==
    \/ value \in {Undefined, Null, Str("")}
    \/ IsArr(value) /\ Len(value.arr) = 0

\* rules={[{ required: true }]} on strategy and date: the fields that fail
failedFields(values) ==
    { name \in {"strategy", "date"} : isEmptyValue(values[name]) }

\* The form calls onFinish only when no rule fails
validate(values) == failedFields(values) = {}

\* const [start, end] = values.date; an element the array lacks is undefined
destructure(date, i) ==
    IF IsArr(date) /\ i <= Len(date.arr) THEN date.arr[i] ELSE Undefined

\* start.format(...) and end.format(...) raise a TypeError unless both are
\* Dayjs objects, and so does the destructuring of a date that is no array
submitThrows(values) ==
    \/ ~IsArr(values.date)
    \/ ~IsDayjs(destructure(values.date, 1))
    \/ ~IsDayjs(destructure(values.date, 2))

----------------------------------------------------------------------------
(* The backtest response.  The numbers of the replies are integers.        *)

LF == "\n"

\* An object with computed keys, given by its entries in key order
Obj(list) == [entries |-> list]

\* Object.entries(obj)
entries(obj) == obj.entries

TimeSeries(dates, values) == [dates |-> dates, values |-> values]

OneDay == TimeSeries(<<Text(<<"2024-01-02">>)>>, <<Num(100)>>)

NoDays == TimeSeries(<<>>, <<>>)

SampleSignal ==
    [ date |-> Text(<<"2024-01-02">>), type |-> Text(<<"buy">>),
      price |-> Num(10), size |-> Undefined,
      symbol |-> Text(<<"BRK", ",", "B">>) ]

SampleTrade ==
    [ symbol |-> Undefined, enter_date |-> Text(<<"2024-01-02">>),
      enter_price |-> Num(10), exit_date |-> Text(<<"2024-01-05">>),
      exit_price |-> Num(12), pnl |-> Num(2), ret |-> Num(0) ]

SampleHistogram(buckets) == [horizon |-> Num(5), buckets |-> buckets]

SampleBucket == [bin_start |-> Num(0), bin_end |-> Num(1), count |-> Num(4)]

\* Every section has data
FullReply ==
    [ equity_curve |-> OneDay, drawdown_curve |-> OneDay,
      price_series |-> Undefined,
      signals |-> Arr(<<SampleSignal>>), trades |-> Arr(<<SampleTrade>>),
      metrics |-> Obj(<< <<Text(<<"sharpe">>), Num(1)>> >>),
      histogram |-> SampleHistogram(<<SampleBucket>>),
      indicator_statistics |->
          Obj(<< <<Text(<<"5">>), Obj(<< <<Text(<<"mean">>), Num(1)>> >>)>> >>) ]

\* A run that traded nothing: the optional sections are there and empty
QuietReply ==
    [ equity_curve |-> OneDay, drawdown_curve |-> OneDay,
      price_series |-> Undefined,
      signals |-> Arr(<<>>), trades |-> Arr(<<>>),
      metrics |-> Obj(<< <<Text(<<"sharpe">>), Num(0)>> >>),
      histogram |-> SampleHistogram(<<>>),
      indicator_statistics |-> Obj(<<>>) ]

\* The optional sections are absent and the curves are empty
BareReply ==
    [ equity_curve |-> NoDays, drawdown_curve |-> NoDays,
      price_series |-> Undefined,
      signals |-> Undefined, trades |-> Undefined,
      metrics |-> Obj(<<>>),
      histogram |-> Undefined,
      indicator_statistics |-> Undefined ]

\* Prices without an equity curve
PriceOnlyReply == [BareReply EXCEPT !.price_series = OneDay]

Replies == {FullReply, QuietReply, BareReply, PriceOnlyReply}

----------------------------------------------------------------------------
(* The application shell: App.handleSubmit and the chart refs              *)

Roles == {"equity", "drawdown", "signals", "histogram"}

\* EquityChart, DrawdownChart and HistogramChart render a placeholder while
\* loading; SignalChart has no loading state
LoadingCharts == {"equity", "drawdown", "histogram"}

\* The series a chart draws; SignalChart gets price_series ?? equity_curve
chartData(role, data) ==
    CASE role = "equity" -> data.equity_curve
      [] role = "drawdown" -> data.drawdown_curve
      [] role = "signals" -> Coalesce(data.price_series, data.equity_curve)
      [] role = "histogram" -> data.histogram

\* A chart component renders its ECharts instance unless it is loading or
\* its data is missing or empty
chartMounted(role, resp, ld) ==
    /\ resp # Null
    /\ role \in LoadingCharts => ~ld
    /\ LET d == chartData(role, resp.data)
       IN  /\ Truthy(d)
           /\ IF role = "histogram" THEN Len(d.buckets) > 0
                                    ELSE Len(d.dates) > 0

\* A handleSubmit that leaves the chart refs as they are
resetChartRefsKeep(refs) == refs

\* equityChartRef.current = null, and so for the other three
resetChartRefs(refs) == [role \in Roles |-> Null]

\* A render: a chart that becomes mounted reports its instance through onReady
renderCharts(refs, oldResp, oldLd, newResp, newLd) ==
    [role \in Roles |->
        IF chartMounted(role, newResp, newLd) /\ ~chartMounted(role, oldResp, oldLd)
        THEN [chart |-> role, gen |-> newResp.gen]
        ELSE refs[role]]

\* A catch block that never falls back on error.message
errorNoticeDetailOnly(error) ==
    IF Truthy(error.detail) THEN error.detail ELSE Str("Backtest failed")

\* error?.response?.data?.detail || error.message, then ?? "Backtest failed"
errorNotice(error) ==
    Coalesce(IF Truthy(error.detail) THEN error.detail ELSE error.message,
             Str("Backtest failed"))

ErrorInputs ==
    { [detail |-> Str("insufficient data"), message |-> Str("Request failed")],
      [detail |-> Undefined, message |-> Str("Network Error")],
      [detail |-> Str(""), message |-> Str("Request failed with status code 500")],
      [detail |-> Undefined, message |-> Undefined] }

\* download is the file the last step handed to the browser: no step of
\* the form or of handleSubmit hands one over, nor does an export handler
\* that returns early
NoDownload == Null

\* A Run Backtest button that stays clickable while a request is pending
RunBacktestAlwaysClickable(ld) == TRUE

\* <Button htmlType="submit" loading={loading}>: a loading button ignores clicks
RunBacktestClickable(ld) == ~ld

NoPreset == <<>>

InitApp(f) ==
    /\ form = f
    /\ watch = useWatch(f)
    /\ loading = FALSE
    /\ response = Null
    /\ lastRunConfig = Null
    /\ lastFormValues = Null
    /\ inflight = {}
    /\ issued = 0
    /\ notice = Null
    /\ chartRefs = [role \in Roles |-> Null]
    /\ download = NoDownload
    /\ lastOp = "mount"
    /\ fieldErrors = {}

\* Run Backtest: the form validates, submit compiles the payload and awaits
\* onSubmit = handleSubmit, which runs up to its await of api.post.  The
\* pending call is recorded with the snapshot it was compiled from and with
\* the chart refs as it found them
Submit ==
    /\ RunBacktestClickable(loading)
    /\ issued < MaxSubmits
    /\ validate(form)
    /\ ~submitThrows(form)
    /\ issued' = issued + 1
    /\ inflight' = inflight \cup
           { [ id |-> issued + 1, values |-> form,
               payload |-> submit(form, watch), rawValues |-> Undefined,
               refs |-> chartRefs ] }
    /\ loading' = TRUE
    /\ chartRefs' = renderCharts(resetChartRefs(chartRefs),
                                 response, loading, response, TRUE)
    /\ download' = NoDownload
    /\ lastOp' = "submit"
    /\ fieldErrors' = {}
    /\ UNCHANGED <<form, watch, response, lastRunConfig, lastFormValues, notice,
                   storage>>

\* A try block that stores the reply and not the request it answers
ResolveKeepConfig(req, data) ==
    /\ req \in inflight
    /\ inflight' = inflight \ {req}
    /\ response' = [gen |-> req.id, data |-> data]
    /\ notice' = Str("Backtest complete")
    /\ loading' = FALSE
    /\ chartRefs' = renderCharts(chartRefs, response, loading, response', FALSE)
    /\ download' = NoDownload
    /\ lastOp' = "resolve"
    /\ UNCHANGED <<form, watch, issued, presetVars, lastRunConfig, lastFormValues>>

\* api.post resolves: the rest of the try block, then finally
Resolve(req, data) ==
    /\ req \in inflight
    /\ inflight' = inflight \ {req}
    /\ response' = [gen |-> req.id, data |-> data]
    /\ lastRunConfig' = req.payload
    /\ lastFormValues' = req.rawValues
    /\ notice' = Str("Backtest complete")
    /\ loading' = FALSE
    /\ chartRefs' = renderCharts(chartRefs, response, loading, response', FALSE)
    /\ download' = NoDownload
    /\ lastOp' = "resolve"
    /\ UNCHANGED <<form, watch, issued, presetVars>>

\* A catch block with no finally after it: the flag is left as it is
RejectNoFinally(req, error) ==
    /\ req \in inflight
    /\ inflight' = inflight \ {req}
    /\ notice' = errorNotice(error)
    /\ download' = NoDownload
    /\ lastOp' = "reject"
    /\ UNCHANGED <<form, watch, issued, response, lastRunConfig, lastFormValues,
                   presetVars, loading, chartRefs>>

\* api.post rejects: the catch block, then finally
Reject(req, error) ==
    /\ req \in inflight
    /\ inflight' = inflight \ {req}
    /\ notice' = errorNotice(error)
    /\ loading' = FALSE
    /\ chartRefs' = renderCharts(chartRefs, response, loading, response, FALSE)
    /\ download' = NoDownload
    /\ lastOp' = "reject"
    /\ UNCHANGED <<form, watch, issued, response, lastRunConfig, lastFormValues,
                   presetVars>>

\* Run Backtest on a form with a failing rule: the errors are shown under
\* the fields and onFinish is not called
SubmitInvalid ==
    /\ RunBacktestClickable(loading)
    /\ ~validate(form)
    /\ fieldErrors' = failedFields(form)
    /\ download' = NoDownload
    /\ lastOp' = "submit-invalid"
    /\ UNCHANGED <<formVars, appVars, storage>>

\* Run Backtest on a form that passes its rules and on which submit raises
\* a TypeError before it reaches onSubmit: the promise of onFinish rejects
SubmitThrows ==
    /\ RunBacktestClickable(loading)
    /\ validate(form)
    /\ submitThrows(form)
    /\ fieldErrors' = {}
    /\ download' = NoDownload
    /\ lastOp' = "submit-throws"
    /\ UNCHANGED <<formVars, appVars, storage>>

----------------------------------------------------------------------------
(* CSV and JSON downloads: utils/download.ts and the export handlers of App *)

\* Array.prototype.join over strings
RECURSIVE join(_, _)
join(list, sep) ==
    IF Len(list) = 0 THEN Text(<<>>)
    ELSE IF Len(list) = 1 THEN list[1]
    ELSE Text(list[1].text \o sep.text \o join(Tail(list), sep).text)

\* String(value) of a string or of an integer
String(value) ==
    CASE IsText(value) -> value
      [] IsNum(value) -> Text(<<ToString(value.num)>>)
      [] value = Str("") -> Text(<<>>)
      [] DOMAIN value = {"str"} -> Text(<<value.str>>)
      [] DOMAIN value = {"bool"} ->
             Text(<<IF value.bool THEN "true" ELSE "false">>)

\* str.replace(/"/g, '""')
RECURSIVE doubleQuotes(_)
doubleQuotes(pieces) ==
    IF Len(pieces) = 0 THEN <<>>
    ELSE (IF Head(pieces) = "\"" THEN <<"\"", "\"">> ELSE <<Head(pieces)>>)
             \o doubleQuotes(Tail(pieces))

\* A field encoder that wraps a field in quotes without doubling its quotes
csvFieldNoDoubling(value) ==
    IF value = Null \/ value = Undefined THEN Text(<<>>)
    ELSE LET str == String(value).text
         IN  IF \E i \in 1..Len(str) : str[i] \in {"\"", ",", LF}
             THEN Text(<<"\"">> \o str \o <<"\"">>)
             ELSE Text(str)

\* The callback of row.map in createCSVContent
csvField(value) ==
    IF value = Null \/ value = Undefined THEN Text(<<>>)
    ELSE LET str == String(value).text
         IN  IF \E i \in 1..Len(str) : str[i] \in {"\"", ",", LF}
             THEN Text(<<"\"">> \o doubleQuotes(str) \o <<"\"">>)
             ELSE Text(str)

csvRow(row) == join([n \in 1..Len(row) |-> csvField(row[n])], Text(<<",">>))

createCSVContent(columns, rows) ==
    LET header == join(columns, Text(<<",">>))
        body == join([n \in 1..Len(rows) |-> csvRow(rows[n])], Text(<<LF>>))
    IN  IF Len(rows) > 0
        THEN Text(header.text \o <<LF>> \o body.text)
        ELSE Text(header.text \o <<LF>>)

\* The file handed to the browser by link.click()
downloadCSV(filename, columns, rows) ==
    [ filename |-> filename, type |-> "text/csv;charset=utf-8;",
      content |-> createCSVContent(columns, rows) ]

\* JSON.stringify(data, null, 2)
stringify(data) == [json |-> data]

downloadJSON(filename, data) ==
    [ filename |-> filename, type |-> "application/json",
      content |-> stringify(data) ]

Columns(names) == [i \in 1..Len(names) |-> Text(<<names[i]>>)]

\* curve.dates.map((d, i) => [d, curve.values[i]])
curveRows(curve) == [i \in 1..Len(curve.dates) |-> <<curve.dates[i], curve.values[i]>>]

signalRow(s) ==
    << s.date, s.type, Coalesce(s.price, Text(<<>>)),
       Coalesce(s.size, Text(<<>>)), Coalesce(s.symbol, Text(<<>>)) >>

tradeRow(t) ==
    << Coalesce(t.symbol, Text(<<>>)), t.enter_date, t.enter_price,
       t.exit_date, t.exit_price, t.pnl, t.ret >>

bucketRow(bucket) == <<bucket.bin_start, bucket.bin_end, bucket.count>>

signalRows(signals) == [n \in 1..Len(signals) |-> signalRow(signals[n])]

tradeRows(trades) == [n \in 1..Len(trades) |-> tradeRow(trades[n])]

bucketRows(buckets) == [n \in 1..Len(buckets) |-> bucketRow(buckets[n])]

\* x?.length is truthy
HasLength(x) == IsArr(x) /\ Len(x.arr) > 0

\* The rows [horizon, metric, value] over the entries of indicator_statistics
RECURSIVE horizonRows(_)
horizonRows(list) ==
    IF Len(list) = 0 THEN <<>>
    ELSE LET horizon == Head(list)[1]
             metrics == entries(Head(list)[2])
         IN  [i \in 1..Len(metrics) |-> <<horizon, metrics[i][1], metrics[i][2]>>]
                 \o horizonRows(Tail(list))

indicatorStatRows(stats) == horizonRows(entries(stats))

handleDownloadEquity(resp) ==
    IF Falsy(resp) THEN NoDownload
    ELSE downloadCSV("equity_curve.csv", Columns(<<"date", "value">>),
                     curveRows(resp.data.equity_curve))

handleDownloadDrawdown(resp) ==
    IF Falsy(resp) THEN NoDownload
    ELSE downloadCSV("drawdown_curve.csv", Columns(<<"date", "value">>),
                     curveRows(resp.data.drawdown_curve))

handleDownloadSignals(resp) ==
    IF Falsy(resp) \/ ~HasLength(resp.data.signals) THEN NoDownload
    ELSE downloadCSV("signals.csv",
                     Columns(<<"date", "type", "price", "size", "symbol">>),
                     signalRows(resp.data.signals.arr))

handleDownloadMetrics(resp) ==
    IF Falsy(resp) THEN NoDownload
    ELSE downloadCSV("metrics.csv", Columns(<<"metric", "value">>),
                     entries(resp.data.metrics))

handleDownloadTrades(resp) ==
    IF Falsy(resp) \/ ~HasLength(resp.data.trades) THEN NoDownload
    ELSE downloadCSV("trades.csv",
                     Columns(<<"symbol", "enter_date", "enter_price",
                               "exit_date", "exit_price", "pnl", "ret">>),
                     tradeRows(resp.data.trades.arr))

\* A summary export without the response guard
handleDownloadSummaryUnguarded(resp) ==
    downloadJSON("backtest_summary.json", resp)

handleDownloadSummary(resp) ==
    IF Falsy(resp) THEN NoDownload
    ELSE downloadJSON("backtest_summary.json", resp)

handleDownloadHistogram(resp) ==
    IF Falsy(resp) \/ Falsy(resp.data.histogram) THEN NoDownload
    ELSE downloadCSV("histogram.csv",
                     Columns(<<"bin_start", "bin_end", "count">>),
                     bucketRows(resp.data.histogram.buckets))

handleDownloadIndicatorStats(resp) ==
    IF Falsy(resp) \/ resp.data.indicator_statistics = Undefined THEN NoDownload
    ELSE downloadCSV("indicator_statistics.csv",
                     Columns(<<"horizon", "metric", "value">>),
                     indicatorStatRows(resp.data.indicator_statistics))

ExportKinds ==
    { "equity", "drawdown", "signals", "metrics", "trades", "summary",
      "histogram", "indicator_statistics" }

exportHandler(kind, resp) ==
    CASE kind = "equity" -> handleDownloadEquity(resp)
      [] kind = "drawdown" -> handleDownloadDrawdown(resp)
      [] kind = "signals" -> handleDownloadSignals(resp)
      [] kind = "metrics" -> handleDownloadMetrics(resp)
      [] kind = "trades" -> handleDownloadTrades(resp)
      [] kind = "summary" -> handleDownloadSummary(resp)
      [] kind = "histogram" -> handleDownloadHistogram(resp)
      [] kind = "indicator_statistics" -> handleDownloadIndicatorStats(resp)

\* An export handler is invoked with the state of the current render; the
\* message shown to the user is left as it was
Export(kind) ==
    /\ download' = exportHandler(kind, response)
    /\ lastOp' = kind
    /\ UNCHANGED <<form, watch, loading, response, lastRunConfig,
                   lastFormValues, inflight, issued, notice, chartRefs,
                   presetVars>>

----------------------------------------------------------------------------
(* The parameter summary: utils/report.ts *)

\* The em dash shown for a value that is not set
Dash == Text(<<"--">>)

\* value.join(", ") of an array whose elements are single pieces
RECURSIVE joinPieces(_)
joinPieces(arr) ==
    IF Len(arr) = 0 THEN <<>>
    ELSE IF Len(arr) = 1 THEN <<arr[1]>>
    ELSE <<arr[1], ",", " ">> \o joinPieces(Tail(arr))

formatValue(value) ==
    IF value = Undefined \/ value = Null \/ value = Str("") \/ value = Text(<<>>)
    THEN Dash
    ELSE IF IsArr(value)
         THEN (IF Len(value.arr) = 0 THEN Dash ELSE Text(joinPieces(value.arr)))
         ELSE String(value)

Pad2(n) == IF n < 10 THEN <<"0", ToString(n)>> ELSE <<ToString(n)>>

\* value ? value.format("YYYY-MM-DD") : the dash
formatDate(value) ==
    IF Truthy(value)
    THEN Text(<<ToString(value.dayjs[1]), "-">> \o Pad2(value.dayjs[2])
                  \o <<"-">> \o Pad2(value.dayjs[3]))
    ELSE Dash

formatBool(value) ==
    IF Truthy(value) THEN Text(<<"Enabled">>) ELSE Text(<<"Disabled">>)

\* The rows of buildSelectionRows: section, label, and how the value is read
SelectionFields ==
    << <<"Strategy", "Strategy", "value", "strategy">>,
       <<"Strategy", "Start date", "start", "date">>,
       <<"Strategy", "End date", "end", "date">>,
       <<"Strategy", "Initial capital", "value", "capital">>,
       <<"Strategy", "Fee (bps)", "value", "fee_bps">>,
       <<"Strategy", "Hold days", "value", "hold_days">>,
       <<"Strategy", "Stop loss (%)", "value", "stop_loss_pct">>,
       <<"Strategy", "Take profit (%)", "value", "take_profit_pct">>,
       <<"Universe Filters", "Sectors", "list", "filters_sectors">>,
       <<"Universe Filters", "Market cap min", "value", "filters_mcap_min">>,
       <<"Universe Filters", "Market cap max", "value", "filters_mcap_max">>,
       <<"Universe Filters", "Exclude tickers", "list", "filters_exclude_tickers">>,
       <<"RSI", "Enabled", "bool", "enable_rsi">>,
       <<"RSI", "Lookback", "value", "rsi_n">>,
       <<"RSI", "Mode", "value", "rsi_rule_mode">>,
       <<"RSI", "Threshold", "value", "rsi_rule_threshold">>,
       <<"MACD", "Enabled", "bool", "use_macd">>,
       <<"MACD", "Fast", "value", "macd_fast">>,
       <<"MACD", "Slow", "value", "macd_slow">>,
       <<"MACD", "Signal", "value", "macd_signal">>,
       <<"MACD", "Rule", "value", "macd_rule">>,
       <<"OBV", "Enabled", "bool", "use_obv">>,
       <<"OBV", "Rule", "value", "obv_rule">>,
       <<"EMA", "Enabled", "bool", "use_ema">>,
       <<"EMA", "Short", "value", "ema_short">>,
       <<"EMA", "Long", "value", "ema_long">>,
       <<"ADX", "Enabled", "bool", "use_adx">>,
       <<"ADX", "Lookback", "value", "adx_n">>,
       <<"ADX", "Min ADX", "value", "adx_min">>,
       <<"Aroon", "Enabled", "bool", "use_aroon">>,
       <<"Aroon", "Lookback", "value", "aroon_n">>,
       <<"Aroon", "Aroon up", "value", "aroon_up">>,
       <<"Aroon", "Aroon down", "value", "aroon_down">>,
       <<"Stochastic", "Enabled", "bool", "use_stoch">>,
       <<"Stochastic", "%K", "value", "stoch_k">>,
       <<"Stochastic", "%D", "value", "stoch_d">>,
       <<"Stochastic", "Threshold", "value", "stoch_threshold">>,
       <<"Stochastic", "Rule", "value", "stoch_rule">>,
       <<"Signal Rules", "Policy", "value", "policy">>,
       <<"Signal Rules", "k", "k", "k">>,
       <<"Signal Rules", "Max horizon", "value", "max_horizon">>,
       <<"Signal Rules", "Histogram horizon", "value", "hist_horizon">>,
       <<"Signal Rules", "Histogram bins", "value", "hist_bins">> >>

selectionValue(values, how, field) ==
    LET dates == Coalesce(values.date, Arr(<<Undefined, Undefined>>)).arr
    IN  CASE how = "value" -> formatValue(values[field])
          [] how = "list" -> formatValue(Coalesce(values[field], Arr(<<>>)))
          [] how = "bool" -> formatValue(formatBool(values[field]))
          [] how = "start" -> formatValue(formatDate(dates[1]))
          [] how = "end" -> formatValue(formatDate(dates[2]))
          [] how = "k" -> formatValue(IF values.policy = Str("atleast_k")
                                      THEN values.k ELSE Dash)

buildSelectionRows(values) ==
    [ i \in 1..Len(SelectionFields) |->
        << Text(<<SelectionFields[i][1]>>), Text(<<SelectionFields[i][2]>>),
           selectionValue(values, SelectionFields[i][3], SelectionFields[i][4]) >> ]

----------------------------------------------------------------------------
(* The report document: App.handleDownloadReport *)

escapePiece(c) ==
    CASE c = "&" -> "&amp;"
      [] c = "<" -> "&lt;"
      [] c = ">" -> "&gt;"
      [] OTHER -> c

\* value.replace(/&/g, "&amp;").replace(/</g, "&lt;").replace(/>/g, "&gt;");
\* the text of a JSON document is kept as the document
escapeHtml(value) ==
    IF IsText(value)
    THEN Text([i \in 1..Len(value.text) |-> escapePiece(value.text[i])])
    ELSE [escaped |-> value]

\* What chart.getDataURL does when it is called
CaptureResults == {"png", "throws"}

\* The exception of a handler that does not catch it
Thrown == [thrown |-> TRUE]

\* A capture without the try block
captureChartUncaught(chart, result) ==
    IF Falsy(chart) THEN Null
    ELSE IF result = "throws" THEN Thrown
    ELSE [png |-> chart]

captureChart(chart, result) ==
    IF Falsy(chart) THEN Null
    ELSE IF result = "throws" THEN Null
    ELSE [png |-> chart]

NoDataAvailable == [p |-> "No data available."]

sectionTable(rows, headers) ==
    IF Len(rows) = 0 THEN NoDataAvailable
    ELSE [ thead |-> [n \in 1..Len(headers) |-> escapeHtml(headers[n])],
           tbody |-> [ i \in 1..Len(rows) |->
                        [ j \in 1..Len(rows[i]) |->
                            escapeHtml(String(Coalesce(rows[i][j], Text(<<>>)))) ] ] ]

\* The empty string of a template slot that renders nothing
Omitted == Text(<<>>)

csvSection(title, csv) ==
    IF Falsy(csv) THEN Omitted
    ELSE [summary |-> escapeHtml(Text(<<title>>)), pre |-> escapeHtml(csv)]

ReportSections ==
    {"equity", "drawdown", "signals", "trades", "histogram", "indicator_statistics"}

\* The rows of a section as handleDownloadReport derives them
reportRows(section, data) ==
    CASE section = "equity" -> curveRows(data.equity_curve)
      [] section = "drawdown" -> curveRows(data.drawdown_curve)
      [] section = "signals" ->
             signalRows(Coalesce(data.signals, Arr(<<>>)).arr)
      [] section = "trades" ->
             tradeRows(Coalesce(data.trades, Arr(<<>>)).arr)
      [] section = "histogram" ->
             IF Truthy(data.histogram)
             THEN bucketRows(data.histogram.buckets) ELSE <<>>
      [] section = "indicator_statistics" ->
             IF Truthy(data.indicator_statistics)
             THEN indicatorStatRows(data.indicator_statistics) ELSE <<>>

reportColumns(section) ==
    CASE section \in {"equity", "drawdown"} -> Columns(<<"date", "value">>)
      [] section = "signals" ->
             Columns(<<"date", "type", "price", "size", "symbol">>)
      [] section = "trades" ->
             Columns(<<"symbol", "enter_date", "enter_price", "exit_date",
                       "exit_price", "pnl", "ret">>)
      [] section = "histogram" -> Columns(<<"bin_start", "bin_end", "count">>)
      [] section = "indicator_statistics" ->
             Columns(<<"horizon", "metric", "value">>)

\* equityCsv .. indicatorCsv: signalsCsv and tradesCsv are built without a
\* test of their rows
reportCsv(section, data) ==
    IF section \in {"signals", "trades"}
    THEN createCSVContent(reportColumns(section), reportRows(section, data))
    ELSE IF Len(reportRows(section, data)) > 0
         THEN createCSVContent(reportColumns(section), reportRows(section, data))
         ELSE Null

reportTitle ==
    [ equity |-> "Equity Curve (CSV)", drawdown |-> "Drawdown (CSV)",
      signals |-> "Signals (CSV)", trades |-> "Trades (CSV)",
      histogram |-> "Histogram (CSV)",
      indicator_statistics |-> "Indicator Statistics (CSV)" ]

figureLabels ==
    [ equity |-> [alt |-> "Equity Curve", figcaption |-> "Equity Curve"],
      drawdown |-> [alt |-> "Drawdown", figcaption |-> "Drawdown"],
      signals |-> [alt |-> "Signals", figcaption |-> "Signals & Price"],
      histogram |-> [alt |-> "Histogram", figcaption |-> "Return Distribution"] ]

figure(role, image) ==
    IF Truthy(image)
    THEN [ img |-> image, alt |-> figureLabels[role].alt,
           figcaption |-> figureLabels[role].figcaption ]
    ELSE Omitted

\* The html template filled in
reportDocument(resp, selectionRows, runConfig, images) ==
    [ parameterSummary |->
          IF Len(selectionRows) > 0
          THEN sectionTable(selectionRows,
                            Columns(<<"Section", "Parameter", "Value">>))
          ELSE [p |-> "No parameter selections recorded."],
      metrics |->
          IF Len(entries(resp.data.metrics)) > 0
          THEN sectionTable(entries(resp.data.metrics),
                            Columns(<<"Metric", "Value">>))
          ELSE [p |-> "No metrics available."],
      charts |-> [role \in Roles |-> figure(role, images[role])],
      dataSnapshots |->
          [ section \in ReportSections |->
              csvSection(reportTitle[section], reportCsv(section, resp.data)) ],
      request |->
          IF Truthy(runConfig)
          THEN [ summary |-> "Request Parameters",
                 pre |-> escapeHtml(stringify(runConfig)) ]
          ELSE Omitted,
      response |-> [ summary |-> "Backtest Response",
                     pre |-> escapeHtml(stringify(resp)) ] ]

\* The handler's outcome: the file it hands to the browser and the message
\* it shows, Undefined when an exception leaves it before message.success
handleDownloadReport(resp, formValues, runConfig, refs, results) ==
    IF Falsy(resp)
    THEN [ file |-> NoDownload,
           message |-> Str("Run the backtest before downloading the report") ]
    ELSE LET selectionRows ==
                 IF Truthy(formValues) THEN buildSelectionRows(formValues)
                                      ELSE <<>>
             images == [role \in Roles |-> captureChart(refs[role], results[role])]
         IN  IF \E role \in Roles : images[role] = Thrown
             THEN [file |-> NoDownload, message |-> Undefined]
             ELSE [ file |-> [ filename |-> "backtest-report.html",
                               type |-> "text/html;charset=utf-8",
                               content |-> reportDocument(resp, selectionRows,
                                                          runConfig, images) ],
                    message |-> Str("Report downloaded") ]

\* Download Report, with what getDataURL does for each chart
Report(results) ==
    /\ LET outcome == handleDownloadReport(response, lastFormValues,
                                           lastRunConfig, chartRefs, results)
       IN  /\ download' = outcome.file
           /\ notice' = IF outcome.message = Undefined THEN notice
                                                       ELSE outcome.message
    /\ lastOp' = "report"
    /\ UNCHANGED <<form, watch, loading, response, lastRunConfig,
                   lastFormValues, inflight, issued, chartRefs, presetVars>>

----------------------------------------------------------------------------
(* Exports: submits, replies, and every export entry point invoked with    *)
(* the state of the current render                                         *)

InitExport == InitApp(mount(NoPreset)) /\ storage = NoItem

NextExport ==
    \/ Submit
    \/ \E req \in inflight, data \in Replies : Resolve(req, data)
    \/ \E req \in inflight, error \in ErrorInputs : Reject(req, error)
    \/ \E kind \in ExportKinds : Export(kind)
    \/ \E results \in [Roles -> CaptureResults] : Report(results)

SpecExport == InitExport /\ [][NextExport]_vars

----------------------------------------------------------------------------
(* Edits of the form *)

\* A field's control writes its value into the store; the component renders
changeField(name, value, op) ==
    /\ form' = afterChange([form EXCEPT ![name] = value], watch)
    /\ watch' = useWatch(form')
    /\ download' = NoDownload
    /\ lastOp' = op
    /\ UNCHANGED <<appVars, presetVars>>

StrategyIds == {"mean_reversion", "momentum", "multifactor"}

\* The strategy Select: the Form.Item stores the id, onChange applies the preset
StrategyChange(id) ==
    /\ form' = afterChange(
                  handleStrategyChange([form EXCEPT !.strategy = Str(id)], id),
                  watch)
    /\ watch' = useWatch(form')
    /\ download' = NoDownload
    /\ lastOp' = "strategy"
    /\ UNCHANGED <<appVars, presetVars>>

----------------------------------------------------------------------------
(* The application: strategy selection, submits and service replies *)

Init == InitApp(mount(NoPreset)) /\ storage = NoItem

Next ==
    \/ \E id \in StrategyIds : StrategyChange(id)
    \/ Submit
    \/ \E req \in inflight, data \in Replies : Resolve(req, data)
    \/ \E req \in inflight, error \in ErrorInputs : Reject(req, error)

Spec == Init /\ [][Next]_vars

\* Save Preset: the values of the form go to local storage as JSON text
handleSavePreset ==
    /\ storage' = JSONstringify(form)
    /\ notice' = Str("Preset saved locally")
    /\ download' = NoDownload
    /\ lastOp' = "save-preset"
    /\ UNCHANGED <<formVars, loading, response, lastRunConfig, lastFormValues,
                   inflight, issued, chartRefs, fieldErrors>>

\* The page is loaded again: every component mounts anew and the effect
\* applies the stored preset over the initial values
Reload ==
    /\ form' = mount(storedPreset(storage))
    /\ watch' = useWatch(form')
    /\ loading' = FALSE
    /\ response' = Null
    /\ lastRunConfig' = Null
    /\ lastFormValues' = Null
    /\ inflight' = {}
    /\ issued' = 0
    /\ notice' = Null
    /\ chartRefs' = [role \in Roles |-> Null]
    /\ download' = NoDownload
    /\ lastOp' = "mount"
    /\ fieldErrors' = {}
    /\ UNCHANGED storage

----------------------------------------------------------------------------
(* The request compiler over bounded form snapshots.  The form is mounted  *)
(* with a stored preset (setFieldsValue of the parsed preset over the      *)
(* initial values); the preset carries the fields the user had set.        *)

SeqsUpTo(S, n) == UNION { [1..m -> S] : m \in 0..n }

TickerChars == {" ", "a"}

TickerStrings == SeqsUpTo(TickerChars, MaxTickerLen)

ScenarioTickers ==
    << <<" ", "t", "s", "l", "a", " ">>, <<"n", "v", "d", "a">>, <<>> >>

TickerLists == SeqsUpTo(TickerStrings, MaxTickers) \cup {ScenarioTickers}

FilterInputs ==
    [ filters_sectors : {Undefined, Arr(<<>>), Arr(<<"Technology">>)},
      filters_mcap_min : {Undefined, Null, Num(0), Num(5)},
      filters_mcap_max : {Undefined, Null, Num(9)},
      filters_exclude_tickers :
          {Undefined, Arr(<<>>), Arr(<< <<" ">> >>), Arr(<< <<"a">> >>)} ]

TickerInputs == { [filters_exclude_tickers |-> Arr(list)] : list \in TickerLists }

RiskInputs ==
    [ stop_loss_pct : {Undefined, Null, Num(0), Num(5), Num(100)},
      take_profit_pct : {Undefined, Null, Num(0), Num(150)} ]

Booleans == {Bool(FALSE), Bool(TRUE)}

IndicatorInputs ==
    [ enable_rsi : Booleans, use_macd : Booleans, use_obv : Booleans,
      use_ema : Booleans, use_adx : Booleans, use_aroon : Booleans,
      use_stoch : Booleans,
      rsi_rule_mode : {Str("oversold"), Str("overbought")},
      rsi_rule_threshold : {Num(0), Num(30), Num(70)} ]

CompileInputs == FilterInputs \cup TickerInputs \cup RiskInputs \cup IndicatorInputs

InitCompile ==
    \E preset \in CompileInputs :
        InitApp(mount(preset)) /\ storage = JSONstringify(preset)

NextCompile ==
    \/ Submit
    \/ \E req \in inflight, data \in {FullReply} : Resolve(req, data)
    \/ \E req \in inflight, error \in ErrorInputs : Reject(req, error)

SpecCompile == InitCompile /\ [][NextCompile]_vars

----------------------------------------------------------------------------
(* The horizon fields: edits of max_horizon, hold_days and hist_horizon,   *)
(* the clamping effect, and submits                                        *)

\* The three InputNumber controls take 1..10 or are cleared (null)
HorizonInputs == {Null, Num(3), Num(5), Num(8), Num(10)}

EditMaxHorizon(value) == changeField("max_horizon", value, "max_horizon")

EditHoldDays(value) == changeField("hold_days", value, "hold_days")

EditHistHorizon(value) == changeField("hist_horizon", value, "hist_horizon")

InitHorizon == InitApp(mount(NoPreset)) /\ storage = NoItem

NextHorizon ==
    \/ \E value \in HorizonInputs : EditMaxHorizon(value)
    \/ \E value \in HorizonInputs : EditHoldDays(value)
    \/ \E value \in HorizonInputs : EditHistHorizon(value)
    \/ Submit

SpecHorizon == InitHorizon /\ [][NextHorizon]_vars

----------------------------------------------------------------------------
(* Strategy presets applied to bounded form states *)

StrategyFormInputs ==
    [ enable_rsi : Booleans, use_macd : Booleans, use_obv : Booleans,
      use_ema : Booleans, use_adx : Booleans, use_aroon : Booleans,
      use_stoch : Booleans,
      rsi_rule_mode : {Str("oversold"), Str("overbought")},
      rsi_rule_threshold : {Num(30), Num(70)},
      stoch_rule : {Str("signal"), Str("overbought")},
      stoch_threshold : {Num(20), Num(35)},
      capital : {Num(100000), Num(5000)} ]

\* handleStrategyChange takes any string; "custom" is not a preset id
StrategyChangeInputs == StrategyIds \cup {"custom"}

InitStrategy ==
    \E preset \in StrategyFormInputs :
        InitApp(mount(preset)) /\ storage = JSONstringify(preset)

NextStrategy == \E id \in StrategyChangeInputs : StrategyChange(id)

SpecStrategy == InitStrategy /\ [][NextStrategy]_vars

----------------------------------------------------------------------------
(* CSV exports of a stored response whose cells range over bounded strings *)

\* An ordinary character and the three characters the encoder treats
CsvAlphabet == {"a", ",", "\"", LF}

CsvStrings == { Text(s) : s \in SeqsUpTo(CsvAlphabet, MaxCellLen) }

\* A key the service left out or sent as null is undefined or null
CsvCells == CsvStrings \cup {Undefined, Null}

\* A reply with n entries in every section; the last entry carries the cell
CsvReply(cell, n) ==
    [ equity_curve |->
          TimeSeries([i \in 1..n |-> Text(<<"2024-01-02">>)],
                     [i \in 1..n |-> IF i = n /\ ~IsText(cell) THEN cell
                                                              ELSE Num(100 + i)]),
      drawdown_curve |->
          TimeSeries([i \in 1..n |-> IF i = n /\ IsText(cell)
                                     THEN cell ELSE Text(<<"2024-01-02">>)],
                     [i \in 1..n |-> Num(0)]),
      price_series |-> Undefined,
      signals |-> Arr([i \in 1..n |-> IF i = n
                                      THEN [SampleSignal EXCEPT !.symbol = cell]
                                      ELSE SampleSignal]),
      trades |-> Arr([i \in 1..n |-> IF i = n
                                     THEN [SampleTrade EXCEPT !.symbol = cell,
                                                              !.exit_date = cell]
                                     ELSE SampleTrade]),
      metrics |-> Obj([i \in 1..n |-> <<Text(<<"metric", ToString(i)>>),
                                        IF i = n /\ ~IsText(cell) THEN cell
                                                                  ELSE Num(i)>>]),
      histogram |-> SampleHistogram([i \in 1..n |-> SampleBucket]),
      indicator_statistics |->
          Obj([i \in 1..n |->
                  <<Text(<<ToString(i)>>),
                    Obj(<< <<IF i = n /\ IsText(cell) THEN cell
                                                      ELSE Text(<<"mean">>),
                             Num(1)>> >>)>>]) ]

CsvReplies == { CsvReply(cell, n) : cell \in CsvCells, n \in 0..MaxRows }

\* The state after Run Backtest on the form f and the reply data
InitStored(f, data) ==
    /\ form = f
    /\ watch = useWatch(f)
    /\ loading = FALSE
    /\ response = [gen |-> 1, data |-> data]
    /\ lastRunConfig = submit(f, useWatch(f))
    /\ lastFormValues = Undefined
    /\ inflight = {}
    /\ issued = 1
    /\ notice = Str("Backtest complete")
    /\ chartRefs = renderCharts([role \in Roles |-> Null], Null, TRUE,
                                [gen |-> 1, data |-> data], FALSE)
    /\ download = NoDownload
    /\ lastOp = "resolve"
    /\ fieldErrors = {}
    /\ storage = NoItem

InitCsv == \E data \in CsvReplies : InitStored(mount(NoPreset), data)

NextCsv == \E kind \in ExportKinds : Export(kind)

SpecCsv == InitCsv /\ [][NextCsv]_vars

----------------------------------------------------------------------------
(* Stored presets: the capital and bins controls, Save Preset, a reload of *)
(* the page, and Run Backtest                                              *)

\* <InputNumber min={5} max={60} />: a number of the range, whole or not,
\* or null when the control is cleared
HistBinsInputs == {Null, Num(5), [num |-> 15, den |-> 2]}

\* <InputNumber min={0} />
CapitalInputs == {Null, Num(0), Num(5000)}

EditHistBins(value) == changeField("hist_bins", value, "hist_bins")

EditCapital(value) == changeField("capital", value, "capital")

\* What the key may hold at the first mount: nothing, or an entry this page
\* did not write (the effect parses whatever text is there)
StoredItems ==
    { NoItem,
      [json |-> [date |-> Null]],
      [json |-> [date |-> Arr(<<IsoString(DefaultStart), Null>>)]],
      [json |-> [capital |-> Num(0 - 5)]],
      [json |-> [hist_bins |-> Num(0)]] }

InitPreset ==
    \E item \in StoredItems :
        InitApp(mount(storedPreset(item))) /\ storage = item

NextPreset ==
    \/ \E value \in HistBinsInputs : EditHistBins(value)
    \/ \E value \in CapitalInputs : EditCapital(value)
    \/ handleSavePreset
    \/ Reload
    \/ Submit
    \/ SubmitInvalid
    \/ SubmitThrows

SpecPreset == InitPreset /\ [][NextPreset]_vars

----------------------------------------------------------------------------
(* Request ordering *)

C2_AtMostOneInFlight == Cardinality(inflight) <= 1

\* A request is pending and only the loading button holds back another submit
C2_Witness ==
    /\ Cardinality(inflight) = 1
    /\ loading
    /\ issued >= 1
    /\ issued < MaxSubmits
    /\ validate(form)

----------------------------------------------------------------------------
(* The compiled request against the submitted snapshot *)

Blank(t) == \A i \in 1..Len(t) : t[i] \in WhiteSpace

\* t without its leading and trailing white space
Trimmed(t) ==
    LET solid == { i \in 1..Len(t) : t[i] \notin WhiteSpace }
    IN IF solid = {} THEN <<>>
       ELSE SubSeq(t, CHOOSE i \in solid : \A j \in solid : i <= j,
                      CHOOSE i \in solid : \A j \in solid : i >= j)

\* The form's ticker list trimmed and uppercased, blank entries dropped
ExpectedTickers(tickers) ==
    LET list == IF tickers = Undefined \/ tickers = Null THEN <<>> ELSE tickers.arr
        kept == SelectSeq(list, LAMBDA t : ~Blank(t))
    IN [i \in 1..Len(kept) |-> ToUpperCase(Trimmed(kept[i]))]

NonEmptyList(x) == IsArr(x) /\ Len(x.arr) > 0

\* C3: the request carries a filters key only if sectors is a non-empty list,
\* mcap_min or mcap_max is set to a number, or the normalized exclude_tickers
\* list is non-empty.
C3_FiltersOnlyWhenSubFilterSet ==
    \A req \in inflight :
        Sent(req.payload, "filters") =>
            \/ NonEmptyList(req.values.filters_sectors)
            \/ IsNum(req.values.filters_mcap_min)
            \/ IsNum(req.values.filters_mcap_max)
            \/ ExpectedTickers(req.values.filters_exclude_tickers) # <<>>

\* Block keys of each indicator and the form fields that configure them
IndicatorFlag ==
    [ rsi |-> "enable_rsi", macd |-> "use_macd", obv |-> "use_obv",
      ema |-> "use_ema", adx |-> "use_adx", aroon |-> "use_aroon",
      stoch |-> "use_stoch" ]

IndicatorParams ==
    [ rsi |-> [n |-> "rsi_n", rule |-> "rsi_rule_mode"],
      macd |-> [fast |-> "macd_fast", slow |-> "macd_slow",
                signal |-> "macd_signal", rule |-> "macd_rule"],
      obv |-> [rule |-> "obv_rule"],
      ema |-> [short |-> "ema_short", long |-> "ema_long"],
      adx |-> [n |-> "adx_n", min |-> "adx_min"],
      aroon |-> [n |-> "aroon_n", up |-> "aroon_up", down |-> "aroon_down"],
      stoch |-> [k |-> "stoch_k", d |-> "stoch_d", rule |-> "stoch_rule",
                 threshold |-> "stoch_threshold"] ]

ThresholdKeys(ind) == IF ind = "rsi" THEN {"oversold", "overbought"} ELSE {}

\* C6: for each of the seven indicators the compiled block is exactly
\* {use: false} when the snapshot's enable flag is false, and {use: true}
\* plus the indicator's configured parameters when the flag is true.
C6_IndicatorBlocksFollowFlags ==
    \A req \in inflight : \A ind \in DOMAIN IndicatorFlag :
        LET flag == req.values[IndicatorFlag[ind]]
            block == req.payload.indicators[ind]
        IN /\ flag = Bool(FALSE) => block = [use |-> Bool(FALSE)]
           /\ flag = Bool(TRUE) =>
                /\ block.use = Bool(TRUE)
                /\ {"use"} \cup DOMAIN IndicatorParams[ind] \subseteq DOMAIN block
                /\ DOMAIN block \subseteq
                       {"use"} \cup DOMAIN IndicatorParams[ind] \cup ThresholdKeys(ind)
                /\ \A key \in DOMAIN IndicatorParams[ind] :
                       block[key] = req.values[IndicatorParams[ind][key]]

\* A request compiled from a snapshot with a disabled and an enabled indicator
C6_Witness ==
    \E req \in inflight :
        /\ req.values.enable_rsi = Bool(FALSE)
        /\ req.values.use_macd = Bool(TRUE)
        /\ req.values.use_stoch = Bool(FALSE)
        /\ req.payload.indicators.macd.use = Bool(TRUE)

\* The RSI block carries exactly the sub-field named by the mode
RsiThresholdRouted(req) ==
    LET block == req.payload.indicators.rsi
        mode == req.values.rsi_rule_mode.str
        other == IF mode = "oversold" THEN "overbought" ELSE "oversold"
    IN /\ Sent(block, mode)
       /\ block[mode] = req.values.rsi_rule_threshold
       /\ ~Sent(block, other)

\* C7 as stated: every compiled RSI block carries exactly one of oversold and
\* overbought, the one named by the selected mode.
C7_ExactlyOneThresholdAlways ==
    \A req \in inflight : RsiThresholdRouted(req)

\* C7 amended: a compiled RSI block of an enabled RSI carries exactly one of
\* oversold and overbought, the one named by the mode, with the threshold; the
\* block of a disabled RSI carries neither.
C7_ExactlyOneThresholdWhenEnabled ==
    \A req \in inflight :
        /\ req.values.enable_rsi = Bool(TRUE) => RsiThresholdRouted(req)
        /\ req.values.enable_rsi = Bool(FALSE) =>
               /\ ~Sent(req.payload.indicators.rsi, "oversold")
               /\ ~Sent(req.payload.indicators.rsi, "overbought")

\* An enabled RSI in overbought mode has been compiled
C7_Witness ==
    \E req \in inflight :
        /\ req.values.enable_rsi = Bool(TRUE)
        /\ req.values.rsi_rule_mode = Str("overbought")
        /\ req.values.rsi_rule_threshold = Num(70)
        /\ req.payload.indicators.rsi.use = Bool(TRUE)

\* The compiled fraction c equals v / 100 when v is a number, and the key is
\* absent when v is undefined or null
FractionOf(payload, key, v) ==
    /\ IsNum(v) => /\ Sent(payload, key)
                   /\ IsNum(payload[key])
                   /\ payload[key].num * 100 = v.num * payload[key].den
    /\ (v = Undefined \/ v = Null) => ~Sent(payload, key)

\* C8: stop_loss_pct and take_profit_pct of the request equal the UI value
\* divided by 100 when it is set (0 included) and are absent when it is unset.
C8_PercentToFraction ==
    \A req \in inflight :
        /\ FractionOf(req.payload, "stop_loss_pct", req.values.stop_loss_pct)
        /\ FractionOf(req.payload, "take_profit_pct", req.values.take_profit_pct)

\* A stop loss of 0 and a cleared take profit have been compiled
C8_Witness ==
    \E req \in inflight :
        /\ req.values.stop_loss_pct = Num(0)
        /\ req.values.take_profit_pct = Null

\* C9: the compiled exclude_tickers is the form's list trimmed, uppercased and
\* without blank entries, in order; the field is omitted when that list is
\* empty.  [" tsla ", "nvda", ""] compiles to ["TSLA", "NVDA"].
C9_ExcludeTickersNormalized ==
    \A req \in inflight :
        LET expected == ExpectedTickers(req.values.filters_exclude_tickers)
        IN /\ expected # <<>> =>
                /\ Sent(req.payload, "filters")
                /\ req.payload.filters.exclude_tickers = Arr(expected)
           /\ expected = <<>> =>
                \/ ~Sent(req.payload, "filters")
                \/ ~Sent(req.payload.filters, "exclude_tickers")
           /\ req.values.filters_exclude_tickers = Arr(ScenarioTickers) =>
                req.payload.filters.exclude_tickers =
                    Arr(<< <<"T", "S", "L", "A">>, <<"N", "V", "D", "A">> >>)

\* The scenario list has been compiled
C9_Witness ==
    \E req \in inflight :
        /\ req.values.filters_exclude_tickers = Arr(ScenarioTickers)
        /\ Sent(req.payload, "filters")

----------------------------------------------------------------------------
(* Horizons *)

\* x <= H for two numbers; a cleared (null) field is not compared
Within(x, H) == (IsNum(x) /\ IsNum(H)) => ~NumGt(x, H)

\* C4: in every compiled request hold_days <= max_horizon and
\* hist_horizon <= max_horizon, whatever edits of the three fields came before.
C4_HorizonsWithinMaxAtSubmit ==
    \A req \in inflight :
        /\ Within(req.payload.hold_days, req.payload.indicators.max_horizon)
        /\ Within(req.payload.indicators.hold_days,
                  req.payload.indicators.max_horizon)
        /\ Within(req.payload.indicators.hist_horizon,
                  req.payload.indicators.max_horizon)

\* C5: after the propagation pass triggered by a change of max_horizon to H,
\* hold_days <= H and hist_horizon <= H, a field already within the bound is
\* unchanged, and a second pass with the same H changes nothing (10 -> 5 with
\* hold_days 8 and hist_horizon 3 gives 5 and 3).
C5_PropagationClamps ==
    [][ (form'.max_horizon # form.max_horizon /\ IsNum(form'.max_horizon)) =>
            LET H == form'.max_horizon
            IN /\ Within(form'.hold_days, H)
               /\ Within(form'.hist_horizon, H)
               /\ Within(form.hold_days, H) => form'.hold_days = form.hold_days
               /\ Within(form.hist_horizon, H) =>
                      form'.hist_horizon = form.hist_horizon
               /\ horizonEffect(form', H) = form'
               /\ \A name \in FieldNames \ {"max_horizon", "hold_days", "hist_horizon"} :
                      form'[name] = form[name]
               /\ ( /\ form.max_horizon = Num(10) /\ H = Num(5)
                    /\ form.hold_days = Num(8) /\ form.hist_horizon = Num(3) )
                  => (form'.hold_days = Num(5) /\ form'.hist_horizon = Num(3)) ]_vars

\* max_horizon was just set to 5: hold_days sits at the bound, hist_horizon
\* below it
C5_Witness ==
    /\ lastOp = "max_horizon"
    /\ form.max_horizon = Num(5)
    /\ form.hold_days = Num(5)
    /\ form.hist_horizon = Num(3)

----------------------------------------------------------------------------
(* Strategy presets *)

\* C10: applying the preset of mean_reversion, momentum or multifactor sets
\* exactly the fields of that preset's map to the preset values and leaves the
\* other fields unchanged; any other id changes no field.  momentum sets
\* use_macd, use_obv, use_ema, use_adx, use_stoch, stoch_rule "signal",
\* stoch_threshold 20, enable_rsi false, and leaves capital untouched.  (The
\* strategy field itself is the Select's own value.)
C10_PresetFrame ==
    [][ LET id == form'.strategy.str
            others == FieldNames \ {"strategy"}
        IN /\ id \in {"mean_reversion", "momentum", "multifactor"} =>
                \A name \in others :
                    form'[name] = IF name \in DOMAIN strategyPresets[id]
                                  THEN strategyPresets[id][name]
                                  ELSE form[name]
           /\ id \notin {"mean_reversion", "momentum", "multifactor"} =>
                \A name \in others : form'[name] = form[name]
           /\ id = "momentum" =>
                /\ form'.use_macd = Bool(TRUE)
                /\ form'.use_obv = Bool(TRUE)
                /\ form'.use_ema = Bool(TRUE)
                /\ form'.use_adx = Bool(TRUE)
                /\ form'.use_stoch = Bool(TRUE)
                /\ form'.stoch_rule = Str("signal")
                /\ form'.stoch_threshold = Num(20)
                /\ form'.enable_rsi = Bool(FALSE)
                /\ form'.capital = form.capital
                /\ form'.rsi_rule_mode = form.rsi_rule_mode
                /\ form'.rsi_rule_threshold = form.rsi_rule_threshold ]_vars

\* momentum was applied to a form with a custom capital and RSI rule
C10_Witness ==
    /\ lastOp = "strategy"
    /\ form.strategy = Str("momentum")
    /\ form.capital = Num(5000)
    /\ form.rsi_rule_mode = Str("overbought")
    /\ form.use_macd = Bool(TRUE)
    /\ form.enable_rsi = Bool(FALSE)
    /\ form.stoch_threshold = Num(20)

----------------------------------------------------------------------------
(* Chart snapshots *)

IsReport(file) == file # Null /\ file.filename = "backtest-report.html"

\* C11: chart snapshots are invalidated by a new response: in every state each
\* chart ref that is set was registered for the stored response, and a report
\* embeds only images captured from chart instances of the stored response.
C11_NoStaleChartRefs ==
    /\ [](\A role \in Roles :
              chartRefs[role] # Null =>
                  response # Null /\ chartRefs[role].gen = response.gen)
    /\ [][ (lastOp' = "report" /\ response # Null) =>
               /\ IsReport(download')
               /\ \A role \in Roles :
                      LET fig == download'.content.charts[role]
                      IN  fig # Omitted => fig.img.png.gen = response.gen ]_vars

\* A report with an image is downloaded after a second response was stored
C11_Witness ==
    /\ lastOp = "report"
    /\ response # Null
    /\ response.gen >= 2
    /\ IsReport(download)
    /\ \E role \in Roles : download.content.charts[role] # Omitted

----------------------------------------------------------------------------
(* Exports without a response, and the report document *)

ExportOps == ExportKinds \cup {"report"}

\* C12: an export entry point invoked while no response is stored hands no
\* file to the browser.
C12_NoExportWithoutResponse ==
    [][ (response = Null /\ lastOp' \in ExportOps) =>
            download' = NoDownload ]_vars

\* An export entry point other than the report ran before any response
C12_Witness ==
    /\ response = Null
    /\ lastOp \in ExportKinds
    /\ download = NoDownload

\* The texts App shows with message.warning
Warnings == {Str("Run the backtest before downloading the report")}

C14_ReportSurvivesCapture ==
    [][ \A results \in [Roles -> CaptureResults] :
            (response # Null /\ Report(results)) =>
                /\ lastOp' = "report"
                /\ IsReport(download')
                /\ notice' = Str("Report downloaded")
                /\ \A role \in Roles :
                       LET fig == download'.content.charts[role]
                       IN  IF chartRefs[role] # Null /\ results[role] = "png"
                           THEN /\ fig # Omitted
                                /\ fig.img = [png |-> chartRefs[role]]
                                /\ fig.alt = figureLabels[role].alt
                                /\ fig.figcaption = figureLabels[role].figcaption
                           ELSE fig = Omitted ]_vars

\* A report whose charts were absent, failing and captured, one of each
C14_Witness ==
    /\ lastOp = "report"
    /\ IsReport(download)
    /\ \E absent, failing, captured \in Roles :
           /\ chartRefs[absent] = Null
           /\ chartRefs[failing] # Null
           /\ download.content.charts[failing] = Omitted
           /\ chartRefs[captured] # Null
           /\ download.content.charts[captured] # Omitted

\* The section of the response has at least one data row
SectionHasRows(section, data) ==
    CASE section = "equity" -> Len(data.equity_curve.dates) > 0
      [] section = "drawdown" -> Len(data.drawdown_curve.dates) > 0
      [] section = "signals" -> HasLength(data.signals)
      [] section = "trades" -> HasLength(data.trades)
      [] section = "histogram" ->
             data.histogram # Undefined /\ Len(data.histogram.buckets) > 0
      [] section = "indicator_statistics" ->
             /\ data.indicator_statistics # Undefined
             /\ \E i \in 1..Len(entries(data.indicator_statistics)) :
                    Len(entries(entries(data.indicator_statistics)[i][2])) > 0

\* C15: the report embeds the CSV block of a section if and only if the
\* section has at least one data row.
C15_CsvBlockIffRows ==
    [][ (lastOp' = "report" /\ IsReport(download') /\ response # Null) =>
            \A section \in ReportSections :
                (download'.content.dataSnapshots[section] # Omitted)
                    <=> SectionHasRows(section, response.data) ]_vars

\* C16: with zero trades the trades section of the report reads "No data
\* available."
C16_NoTradesNoDataText ==
    [][ ( /\ lastOp' = "report"
          /\ IsReport(download')
          /\ response # Null
          /\ ~HasLength(response.data.trades) ) =>
            download'.content.dataSnapshots["trades"] = NoDataAvailable ]_vars

\* C17: the parameter summary of a report is the table of the selection rows
\* of the form snapshot of the submit that produced the response (this
\* specification never edits the form, so every snapshot is the form).
C17_SummaryFromSnapshot ==
    [][ (lastOp' = "report" /\ IsReport(download') /\ response # Null) =>
            download'.content.parameterSummary =
                sectionTable(buildSelectionRows(form),
                             Columns(<<"Section", "Parameter", "Value">>)) ]_vars

----------------------------------------------------------------------------
(* CSV text *)

IsCsv(file) == file # Null /\ file.type = "text/csv;charset=utf-8;"

\* The column names and the rows an export kind passes to downloadCSV
ExportColumns(kind) ==
    IF kind = "metrics" THEN Columns(<<"metric", "value">>)
                        ELSE reportColumns(kind)

ExportRows(kind, data) ==
    IF kind = "metrics" THEN entries(data.metrics) ELSE reportRows(kind, data)

CommaJoined(fields) ==
    IF Len(fields) = 0 THEN <<>>
    ELSE LET RECURSIVE From(_)
             From(i) == IF i = Len(fields) THEN fields[i]
                        ELSE fields[i] \o <<",">> \o From(i + 1)
         IN  From(1)

\* C18: the text of a CSV export ends with a line feed, and with zero data
\* rows it is the comma-joined header followed by a line feed.
C18_TrailingNewline ==
    IsCsv(download) =>
        LET text == download.content.text
            header == CommaJoined([i \in 1..Len(ExportColumns(lastOp)) |->
                                      ExportColumns(lastOp)[i].text])
        IN  /\ Len(text) > 0
            /\ text[Len(text)] = LF
            /\ Len(ExportRows(lastOp, response.data)) = 0 =>
                   text = header \o <<LF>>

NeedsQuotes(str) == \E i \in 1..Len(str) : str[i] \in {",", "\"", LF}

\* Every double quote of str written twice
QuotesDoubled(str) ==
    LET RECURSIVE From(_)
        From(i) == IF i > Len(str) THEN <<>>
                   ELSE IF str[i] = "\"" THEN <<"\"", "\"">> \o From(i + 1)
                   ELSE <<str[i]>> \o From(i + 1)
    IN  From(1)

\* The string form of a cell; null and undefined have the empty one
CellString(cell) ==
    IF cell = Null \/ cell = Undefined THEN <<>> ELSE String(cell).text

ExpectedField(cell) ==
    IF NeedsQuotes(CellString(cell))
    THEN <<"\"">> \o QuotesDoubled(CellString(cell)) \o <<"\"">>
    ELSE CellString(cell)

\* The lines of a text: the header line and one line per row
ExpectedLines(columns, rows) ==
    << CommaJoined([i \in 1..Len(columns) |-> columns[i].text]) >>
        \o [ i \in 1..Len(rows) |->
               CommaJoined([j \in 1..Len(rows[i]) |-> ExpectedField(rows[i][j])]) ]

LinesJoined(lines) ==
    LET RECURSIVE From(_)
        From(i) == IF i = Len(lines) THEN lines[i]
                   ELSE lines[i] \o <<LF>> \o From(i + 1)
    IN  From(1)

WithoutFinalLF(text) ==
    IF Len(text) > 0 /\ text[Len(text)] = LF
    THEN SubSeq(text, 1, Len(text) - 1) ELSE text

\* C19: in the text of a CSV export the first line is the comma-joined column
\* names and each further line is a row: its fields joined by commas, a field
\* with a comma, a double quote or a line feed wrapped in double quotes with
\* its double quotes doubled, any other field verbatim, null and undefined
\* as the empty field.
C19_FieldEncoding ==
    IsCsv(download) =>
        WithoutFinalLF(download.content.text) =
            LinesJoined(ExpectedLines(ExportColumns(lastOp),
                                      ExportRows(lastOp, response.data)))

\* An exported row has a field with a comma, a double quote and a line feed,
\* and another row has an empty field for a value that is not there
C19_Witness ==
    /\ IsCsv(download)
    /\ LET rows == ExportRows(lastOp, response.data)
       IN  /\ \E i \in 1..Len(rows) : \E j \in 1..Len(rows[i]) :
                  /\ IsText(rows[i][j])
                  /\ {",", "\"", LF} \subseteq
                         { rows[i][j].text[k] : k \in 1..Len(rows[i][j].text) }
           /\ \E i \in 1..Len(rows) : \E j \in 1..Len(rows[i]) :
                  rows[i][j] \in {Null, Undefined, Text(<<>>)}

\* A CSV reader: fields end at a comma, records at a line feed, a field in
\* double quotes runs to its closing quote and "" inside it is one quote;
\* a line feed at the end of the text starts no further record
RECURSIVE ParseFrom(_, _, _, _, _, _, _)
ParseFrom(text, i, inQuotes, pending, field, row, rows) ==
    IF i > Len(text)
    THEN (IF pending THEN Append(rows, Append(row, field)) ELSE rows)
    ELSE IF inQuotes
    THEN (IF text[i] = "\""
          THEN (IF i < Len(text) /\ text[i + 1] = "\""
                THEN ParseFrom(text, i + 2, TRUE, TRUE,
                               Append(field, "\""), row, rows)
                ELSE ParseFrom(text, i + 1, FALSE, TRUE, field, row, rows))
          ELSE ParseFrom(text, i + 1, TRUE, TRUE,
                         Append(field, text[i]), row, rows))
    ELSE CASE text[i] = "\"" ->
                  ParseFrom(text, i + 1, TRUE, TRUE, field, row, rows)
           [] text[i] = "," ->
                  ParseFrom(text, i + 1, FALSE, TRUE, <<>>,
                            Append(row, field), rows)
           [] text[i] = LF ->
                  ParseFrom(text, i + 1, FALSE, FALSE, <<>>, <<>>,
                            Append(rows, Append(row, field)))
           [] OTHER ->
                  ParseFrom(text, i + 1, FALSE, TRUE,
                            Append(field, text[i]), row, rows)

ParseCsv(text) == ParseFrom(text, 1, FALSE, FALSE, <<>>, <<>>, <<>>)

\* C20: reading the text of a CSV export of a section with N entries gives
\* the header record and exactly N data records, whose fields are the string
\* forms of the cells of the rows.
C20_RoundTrip ==
    IsCsv(download) =>
        LET rows == ExportRows(lastOp, response.data)
            columns == ExportColumns(lastOp)
            records == ParseCsv(download.content.text)
        IN  /\ Len(records) = 1 + Len(rows)
            /\ records[1] = [j \in 1..Len(columns) |-> columns[j].text]
            /\ \A i \in 1..Len(rows) :
                   records[i + 1] =
                       [j \in 1..Len(rows[i]) |-> CellString(rows[i][j])]

\* A section with MaxRows entries is exported and one of its cells has a
\* comma, a double quote and a line feed
C20_Witness ==
    /\ IsCsv(download)
    /\ LET rows == ExportRows(lastOp, response.data)
       IN  /\ Len(rows) = MaxRows
           /\ \E i \in 1..Len(rows) : \E j \in 1..Len(rows[i]) :
                  /\ IsText(rows[i][j])
                  /\ Len(rows[i][j].text) = 3
                  /\ rows[i][j].text[1] = LF
                  /\ rows[i][j].text[2] = "\""
                  /\ rows[i][j].text[3] = ","

----------------------------------------------------------------------------
(* The notice of a failed call *)

HasDetail(error) == error.detail \notin {Undefined, Null}

\* C21 as stated: when the call fails the notice is the payload's detail if
\* the payload has one, and "Backtest failed" in every other case
C21_DetailElseGeneric ==
    [][\A req \in inflight, error \in ErrorInputs :
          Reject(req, error) =>
              notice' = IF HasDetail(error) THEN error.detail
                        ELSE Str("Backtest failed")]_vars

\* C21 amended: when the call fails the notice is the payload's detail if it
\* is a non-empty string, otherwise the error's own message if it has one,
\* and "Backtest failed" only when it has neither
C21_DetailElseMessageElseGeneric ==
    [][\A req \in inflight, error \in ErrorInputs :
          Reject(req, error) =>
              notice' = IF HasDetail(error) /\ error.detail # Str("")
                            THEN error.detail
                        ELSE IF error.message \notin {Undefined, Null}
                            THEN error.message
                        ELSE Str("Backtest failed")]_vars

C21_Witness ==
    /\ lastOp = "reject"
    /\ notice = Str("Network Error")


----------------------------------------------------------------------------
(* Run Backtest on an incomplete date range *)

Missing(value) == value \in {Undefined, Null}

IncompleteDate(date) ==
    \/ Missing(date)
    \/ Missing(destructure(date, 1))
    \/ Missing(destructure(date, 2))

RunBacktest == Submit \/ SubmitInvalid \/ SubmitThrows

----------------------------------------------------------------------------
(* The bins and the capital of a compiled request *)

Present(obj, key) == key \in DOMAIN obj /\ ~Missing(obj[key])

IsPositiveInteger(x) == IsNum(x) /\ x.num % x.den = 0 /\ x.num > 0

IsNonNegative(x) == IsNum(x) /\ x.num >= 0

\* C23: in every request compiled from a reachable form state, hist_bins,
\* if present, is a positive integer and capital, if present, is not negative
C23_BinsAndCapitalInRange ==
    \A req \in inflight :
        /\ Present(req.payload, "hist_bins") =>
               IsPositiveInteger(req.payload.hist_bins)
        /\ Present(req.payload, "capital") =>
               IsNonNegative(req.payload.capital)


----------------------------------------------------------------------------
(* The stored response while a request is pending *)

\* C24: from the moment a request goes in flight until its reply arrives no
\* response is stored, so an export or report issued meanwhile hands over no
\* file made from the previous response
C24_ResponseClearedWhilePending ==
    /\ [](inflight # {} => response = Null)
    /\ [][(inflight # {} /\ lastOp' \in ExportOps) =>
              download' = NoDownload]_vars


----------------------------------------------------------------------------
(* Chart refs of the rendered charts *)

\* C25: every chart that is rendered for the stored response has its ref set,
\* and a report embeds the image of every rendered chart whose capture does
\* not throw
C25_RenderedChartHasRef ==
    /\ [](\A role \in Roles :
              chartMounted(role, response, loading) => chartRefs[role] # Null)
    /\ [][\A results \in [Roles -> CaptureResults] :
              (Report(results) /\ response # Null) =>
                  \A role \in Roles :
                      (chartMounted(role, response, loading)
                          /\ results[role] = "png") =>
                          download'.content.charts[role] # Omitted]_vars


----------------------------------------------------------------------------
(* The loading flag *)

----------------------------------------------------------------------------
(* The stored response and the stored request *)

----------------------------------------------------------------------------
(* The frame of a failed submit *)

\* C28: a submit whose call fails leaves the stored response, lastRunConfig
\* and lastFormValues as they were before the submit, and apart from the
\* loading flag and the notice nothing else differs either: the form and
\* the chart refs are those the submit found
C28_FailedSubmitChangesNothingElse ==
    /\ [][Submit => UNCHANGED <<response, lastRunConfig, lastFormValues,
                                form>>]_vars
    /\ [][\A req \in inflight, error \in ErrorInputs :
              Reject(req, error) =>
                  /\ UNCHANGED <<response, lastRunConfig, lastFormValues, form>>
                  /\ chartRefs' = req.refs]_vars

\* The three stores alone: unchanged by a submit and by the failure of its call
StoresKeptByFailedSubmit ==
    [][(Submit \/ \E req \in inflight, error \in ErrorInputs : Reject(req, error))
          => UNCHANGED <<response, lastRunConfig, lastFormValues>>]_vars


----------------------------------------------------------------------------
(* Termination of a submit *)

\* Every call of api.post settles: the reply arrives, or the call fails, at
\* the latest when the timeout of the axios instance expires
Settles ==
    \/ \E req \in inflight, data \in Replies : Resolve(req, data)
    \/ \E req \in inflight, error \in ErrorInputs : Reject(req, error)

SpecSettles == Init /\ [][Next]_vars /\ WF_vars(Settles)

\* C29: provided every backtest call eventually resolves or rejects, the
\* loading flag is eventually false again after every submit
C29_LoadingEventuallyFalse == loading ~> ~loading

\* The flag is down again after a call that failed
C29_Witness ==
    /\ ~loading
    /\ lastOp = "reject"
    /\ issued >= 1


----------------------------------------------------------------------------
(* The round trip of a stored preset *)

Compiles(values) == validate(values) /\ ~submitThrows(values)

\* C30: when the page is loaded again with the preset that was saved from
\* the current form, and that form compiles, the restored form compiles too
\* and to the same request
C30_PresetRoundTrip ==
    [][(Reload /\ storage = JSONstringify(form) /\ Compiles(form)) =>
          /\ Compiles(form')
          /\ submit(form', watch') = submit(form, watch)]_vars

====
